---- MODULE Spec2Model ----
(***************************************************************************)
(* The server role of websocketpp (src/roles/server.hpp): the accept loop  *)
(* of role::server and the opening-handshake state machine of              *)
(* role::server::connection.                                               *)
(*                                                                         *)
(* Header values the code inspects character by character (Upgrade,        *)
(* Sec-WebSocket-Version) are sequences of one-character strings, so that  *)
(* atoi and boost::ifind_first are computed, not assumed.                  *)
(***************************************************************************)
EXTENDS Integers, Sequences, FiniteSets, TLC

----------------------------------------------------------------------------
(* Bounds of the model *)

\* clients whose accept completes without error
MaxClients == 1
\* accept completions that report an error
MaxAcceptErrors == 1
\* calls of the connection API one handler hook makes
MaxHookCalls == 1
\* length of the client's subprotocol / extension offer (SpecNegotiation)
MaxOffer == 1
\* length to which accepted_extensions is followed (SpecNegotiation)
MaxAccepted == 2

----------------------------------------------------------------------------
(* Program constants *)

\* http::status_code
SWITCHING_PROTOCOLS == 101
OK == 200
BAD_REQUEST == 400
\* m_version(-1): "not a WebSocket connection"
HTTP_VERSION_SENTINEL == -1

ADVERTISED_VERSIONS == "13, 8, 7"
SERVER_ID == "WebSocket++/2011-11-18"

HeaderKeys ==
  {"Sec-WebSocket-Version", "Sec-WebSocket-Protocol", "Sec-WebSocket-Accept",
   "Server", "X-App"}

\* the connections that get a client, and the one the last accept waits on
ConIds == 1..(MaxClients + 1)

----------------------------------------------------------------------------
(* Character-level helpers *)

Digits == {"0","1","2","3","4","5","6","7","8","9"}

DigitValue(ch) ==
  CASE ch = "0" -> 0 [] ch = "1" -> 1 [] ch = "2" -> 2 [] ch = "3" -> 3
    [] ch = "4" -> 4 [] ch = "5" -> 5 [] ch = "6" -> 6 [] ch = "7" -> 7
    [] ch = "8" -> 8 [] ch = "9" -> 9

\* leading white space skipped by atoi
RECURSIVE SkipSpace(_, _)
SkipSpace(s, i) ==
  IF i <= Len(s) /\ s[i] = " " THEN SkipSpace(s, i + 1) ELSE i

\* the digits of s from position i on, accumulated until the first non-digit
RECURSIVE DigitRun(_, _, _)
DigitRun(s, i, acc) ==
  IF i <= Len(s) /\ s[i] \in Digits
  THEN DigitRun(s, i + 1, acc * 10 + DigitValue(s[i]))
  ELSE acc

\* variant: a header that is not a number throughout counts as no number
atoi_whole_string(s) ==
  IF \A i \in 1..Len(s) : s[i] \in Digits THEN DigitRun(s, 1, 0) ELSE 0

\* atoi(h.c_str()): optional white space, optional sign, then the longest
\* run of digits; 0 when there is none.  (The inputs of the model have at
\* most two digits, so the int never overflows.)
atoi(s) ==
  LET i == SkipSpace(s, 1) IN
  IF i <= Len(s) /\ s[i] = "-" THEN 0 - DigitRun(s, i + 1, 0)
  ELSE IF i <= Len(s) /\ s[i] = "+" THEN DigitRun(s, i + 1, 0)
  ELSE DigitRun(s, i, 0)

ToLower(ch) ==
  CASE ch = "W" -> "w" [] ch = "E" -> "e" [] ch = "B" -> "b" [] ch = "S" -> "s"
    [] ch = "O" -> "o" [] ch = "C" -> "c" [] ch = "K" -> "k" [] ch = "T" -> "t"
    [] OTHER -> ch

\* boost::ifind_first(h, pat): pat occurs in h, ignoring case
ifind_first(h, pat) ==
  \E i \in 1..(Len(h) - Len(pat) + 1) :
    \A j \in 1..Len(pat) : ToLower(h[i + j - 1]) = ToLower(pat[j])

\* std::find(v.begin(), v.end(), value) != v.end()
Found(v, value) == \E i \in 1..Len(v) : v[i] = value

websocket == <<"w","e","b","s","o","c","k","e","t">>

----------------------------------------------------------------------------
(* Inputs: the requests clients send *)

NoHeader == <<>>

VersionHeaders ==
  { NoHeader,
    <<"a","b","c">>,
    <<"0">>,
    <<"7">>,
    <<"8">>,
    <<"1","3">>,
    <<"1","3","a","b","c">>,
    <<"9","9">>,
    <<"-","1">> }

SupportedVersions == {7, 8, 13}

\* parse_complete: what http::parser::request::parse_complete returns;
\* handshake_valid: whether the processor's validate_handshake accepts the
\* headers; host_valid: whether a uri can be built from the Host header;
\* Protocol, Extensions: the values of Sec-WebSocket-Protocol and
\* Sec-WebSocket-Extensions, in the order the client lists them.
Request(p, u, v, hv, h) ==
  [parse_complete |-> p, Upgrade |-> u, Version |-> v,
   handshake_valid |-> hv, host_valid |-> h,
   Protocol |-> <<>>, Extensions |-> <<>>]

\* the request req, offering subprotocols and extensions
Offering(req, subs, exts) ==
  [req EXCEPT !.Protocol = subs, !.Extensions = exts]

NoRequest == Request(FALSE, NoHeader, NoHeader, FALSE, FALSE)

\* bytes the parser rejects: no header is available
GarbageRequest == NoRequest

HttpRequests ==
  { Request(TRUE, NoHeader, NoHeader, FALSE, TRUE),
    Request(TRUE, NoHeader, NoHeader, FALSE, FALSE),
    Request(TRUE, <<"h","2","c">>, NoHeader, FALSE, TRUE) }

\* every version header with acceptable handshake headers, and version 13
\* with headers the processor refuses, a Host no uri can be built from, or
\* an offer of a subprotocol and an extension
WebSocketRequests ==
  { Request(TRUE, websocket, v, TRUE, TRUE) : v \in VersionHeaders }
  \cup { Request(TRUE, websocket, <<"1","3">>, FALSE, TRUE),
         Request(TRUE, websocket, <<"1","3">>, TRUE, FALSE),
         Request(TRUE, <<"W","e","b","S","o","c","k","e","t">>, <<"1","3">>, TRUE, TRUE),
         Offering(Request(TRUE, websocket, <<"1","3">>, TRUE, TRUE),
                  <<"chat">>, <<"gzip">>) }

Requests == {GarbageRequest} \cup HttpRequests \cup WebSocketRequests

----------------------------------------------------------------------------
(* Inputs: what a Handler hook does *)

SubprotocolNames == {"", "chat", "echo"}
ExtensionNames == {"", "gzip", "mux"}

Call(op, key, value) == [op |-> op, key |-> key, value |-> value]

ApiCalls ==
  { Call("add_response_header", "X-App", "a"),
    Call("replace_response_header", "X-App", "a"),
    Call("remove_response_header", "X-App", ""),
    Call("set_body", "", "page"),
    Call("select_subprotocol", "", "chat"),
    Call("select_extension", "", "gzip") }

HookScripts == UNION { [1..n -> ApiCalls] : n \in 0..MaxHookCalls }

\* how the hook ends: it returns, it raises an http::exception carrying a
\* status, or it lets another exception (std::invalid_argument, ...) out.
\* http::exception takes any status code, SWITCHING_PROTOCOLS included.
HookErrorCodes == {404, SWITCHING_PROTOCOLS}

HookOutcomes ==
  { [kind |-> "return", code |-> 0], [kind |-> "std_exception", code |-> 0] }
  \cup { [kind |-> "http_exception", code |-> c] : c \in HookErrorCodes }

\* nothing catches what on_open throws, whatever its type
OnOpenOutcomes == { o \in HookOutcomes : o.kind \in {"return", "std_exception"} }

NoScript == <<>>
Return == [kind |-> "return", code |-> 0]

----------------------------------------------------------------------------
(* The response (http::parser::response) *)

NoHeaders == [k \in HeaderKeys |-> <<>>]

NewResponse == [status |-> 0, headers |-> NoHeaders, body |-> ""]

\* http::parser::add_header: a repeated key keeps every value
add_header(response, key, value) ==
  [response EXCEPT !.headers[key] = Append(@, value)]

replace_header(response, key, value) ==
  [response EXCEPT !.headers[key] = <<value>>]

remove_header(response, key) ==
  [response EXCEPT !.headers[key] = <<>>]

set_status(response, code) == [response EXCEPT !.status = code]

response_set_body(response, value) == [response EXCEPT !.body = value]

----------------------------------------------------------------------------
(* The connection API a hook may call.  cv is the part of the connection   *)
(* the API reads and writes; each call yields the new cv and whether the   *)
(* call threw.                                                             *)

ConView(version, response, subprotocol, extensions, req_sub, req_ext) ==
  [version |-> version, response |-> response, subprotocol |-> subprotocol,
   extensions |-> extensions, requested_subprotocols |-> req_sub,
   requested_extensions |-> req_ext]

Returned(cv) == [cv |-> cv, threw |-> FALSE]
Threw(cv) == [cv |-> cv, threw |-> TRUE]

add_response_header(cv, key, value) ==
  Returned([cv EXCEPT !.response = add_header(@, key, value)])

replace_response_header(cv, key, value) ==
  Returned([cv EXCEPT !.response = replace_header(@, key, value)])

remove_response_header(cv, key) ==
  Returned([cv EXCEPT !.response = remove_header(@, key)])

\* variant: the selection is stored before the offer is consulted
select_subprotocol_stores_first(cv, value) ==
  IF value # "" /\ ~Found(cv.requested_subprotocols, value)
  THEN Threw([cv EXCEPT !.subprotocol = value])
  ELSE Returned([cv EXCEPT !.subprotocol = value])

select_subprotocol(cv, value) ==
  IF value # "" /\ ~Found(cv.requested_subprotocols, value)
  THEN Threw(cv)
  ELSE Returned([cv EXCEPT !.subprotocol = value])

\* variant: the offer is not consulted
select_extension_unchecked(cv, value) ==
  IF value = "" THEN Returned(cv)
  ELSE Returned([cv EXCEPT !.extensions = Append(@, value)])

select_extension(cv, value) ==
  IF value = "" THEN Returned(cv)
  ELSE IF ~Found(cv.requested_extensions, value) THEN Threw(cv)
  ELSE Returned([cv EXCEPT !.extensions = Append(@, value)])

\* variant: the version is not consulted
set_body_unchecked(cv, value) ==
  Returned([cv EXCEPT !.response = response_set_body(@, value)])

set_body(cv, value) ==
  IF cv.version # HTTP_VERSION_SENTINEL
  THEN Threw(cv)
  ELSE Returned([cv EXCEPT !.response = response_set_body(@, value)])

ApplyCall(cv, call) ==
  CASE call.op = "add_response_header" ->
         add_response_header(cv, call.key, call.value)
    [] call.op = "replace_response_header" ->
         replace_response_header(cv, call.key, call.value)
    [] call.op = "remove_response_header" ->
         remove_response_header(cv, call.key)
    [] call.op = "select_subprotocol" -> select_subprotocol(cv, call.value)
    [] call.op = "select_extension" -> select_extension(cv, call.value)
    [] call.op = "set_body" -> set_body(cv, call.value)

\* The calls a hook makes, in order; threw: some call of the connection API
\* threw into the hook.
RECURSIVE RunHook(_, _)
RunHook(cv, script) ==
  IF script = <<>> THEN Returned(cv)
  ELSE LET first == ApplyCall(cv, Head(script))
           rest == RunHook(first.cv, Tail(script))
       IN [cv |-> rest.cv, threw |-> first.threw \/ rest.threw]

----------------------------------------------------------------------------
(* handle_read_request: the try block.  A step of it yields                *)
(*   cv          the API-visible part of the connection after it,          *)
(*   uri         "null" or "set" (m_uri),                                  *)
(*   processor   "null" or "hybi" (m_connection.m_processor),              *)
(*   exc         what left the try block: nothing, an http::exception      *)
(*               with its status, a uri_exception, or another exception,   *)
(*   validate, http   how often the hook was invoked,                      *)
(*   hook_outcome   how the hook ended.                                    *)

NoException == [kind |-> "none", code |-> 0]
HttpException(code) == [kind |-> "http", code |-> code]
UriException == [kind |-> "uri", code |-> 0]
StdException == [kind |-> "std", code |-> 0]

TryResult(cv, uri, processor, exc, validate, http, hook_outcome) ==
  [cv |-> cv, uri |-> uri, processor |-> processor, exc |-> exc,
   validate |-> validate, http |-> http, hook_outcome |-> hook_outcome]

\* what a hook that ended with `outcome` throws into the handshake
HookException(outcome) ==
  CASE outcome.kind = "return" -> NoException
    [] outcome.kind = "http_exception" -> HttpException(outcome.code)
    [] outcome.kind = "std_exception" -> StdException

\* lines 213-219: validate_handshake, get_origin, get_uri, Handler.validate,
\* set_status(SWITCHING_PROTOCOLS)
ValidateHandshake(cv, req, script, outcome) ==
  IF ~req.handshake_valid
  THEN TryResult(cv, "null", "hybi", HttpException(BAD_REQUEST),
                 0, 0, "none")
  ELSE IF ~req.host_valid
  THEN TryResult(cv, "null", "hybi", UriException, 0, 0, "none")
  ELSE LET hook == RunHook(cv, script)
           exc == HookException(outcome)
       IN IF exc.kind # "none"
          THEN TryResult(hook.cv, "set", "hybi", exc,
                         1, 0, outcome.kind)
          ELSE TryResult([hook.cv EXCEPT
                             !.response = set_status(@, SWITCHING_PROTOCOLS)],
                         "set", "hybi", NoException,
                         1, 0, outcome.kind)

\* variant: a missing version header is not told from an unreadable one
WebSocketPath_no_hybi00(cv, req, script, outcome) ==
  LET version == atoi(req.Version)
      cv1 == [cv EXCEPT !.version = version]
      advertised == [cv1 EXCEPT !.response =
                       add_header(@, "Sec-WebSocket-Version", ADVERTISED_VERSIONS)]
  IN IF version = 0
     THEN TryResult(cv1, "null", "null", HttpException(BAD_REQUEST),
                    0, 0, "none")
     ELSE IF version = 7 \/ version = 8 \/ version = 13
     THEN ValidateHandshake(cv1, req, script, outcome)
     ELSE TryResult(advertised, "null", "null", HttpException(BAD_REQUEST),
                    0, 0, "none")

\* lines 186-219: the request asks for a WebSocket upgrade
WebSocketPath(cv, req, script, outcome) ==
  LET h == req.Version
      version == IF h = NoHeader THEN 0 ELSE atoi(h)
      cv1 == [cv EXCEPT !.version = version]
      advertised == [cv1 EXCEPT !.response =
                       add_header(@, "Sec-WebSocket-Version", ADVERTISED_VERSIONS)]
  IN IF h # NoHeader /\ version = 0
     THEN \* "Unable to determine connection version"
          TryResult(cv1, "null", "null", HttpException(BAD_REQUEST),
                    0, 0, "none")
     ELSE IF version = 0
     THEN TryResult(advertised, "null", "null", HttpException(BAD_REQUEST),
                    0, 0, "none")
     ELSE IF version = 7 \/ version = 8 \/ version = 13
     THEN ValidateHandshake(cv1, req, script, outcome)
     ELSE TryResult(advertised, "null", "null", HttpException(BAD_REQUEST),
                    0, 0, "none")

\* variant: the uri of a plain HTTP request is not stored
HttpPath_no_uri(cv, req, script, outcome) ==
  LET hook == RunHook(cv, script)
      exc == HookException(outcome)
  IN IF exc.kind # "none"
     THEN TryResult(hook.cv, "null", "null", exc, 0, 1, outcome.kind)
     ELSE IF ~req.host_valid
     THEN TryResult(hook.cv, "null", "null", UriException,
                    0, 1, outcome.kind)
     ELSE TryResult([hook.cv EXCEPT !.response = set_status(@, OK)],
                    "null", "null", NoException, 0, 1, outcome.kind)

\* lines 220-243: a plain HTTP request
HttpPath(cv, req, script, outcome) ==
  LET hook == RunHook(cv, script)
      exc == HookException(outcome)
  IN IF exc.kind # "none"
     THEN TryResult(hook.cv, "null", "null", exc, 0, 1, outcome.kind)
     ELSE IF ~req.host_valid
     THEN TryResult(hook.cv, "null", "null", UriException,
                    0, 1, outcome.kind)
     ELSE TryResult([hook.cv EXCEPT !.response = set_status(@, OK)],
                    "set", "null", NoException, 0, 1, outcome.kind)

\* variant: Handler.http is invoked for an upgrade request as well
TryBlock_http_always(cv, req, script, outcome) ==
  IF ~req.parse_complete
  THEN TryResult(cv, "null", "null", HttpException(BAD_REQUEST),
                 0, 0, "none")
  ELSE IF ifind_first(req.Upgrade, websocket)
  THEN [WebSocketPath(cv, req, script, outcome) EXCEPT !.http = 1]
  ELSE HttpPath(cv, req, script, outcome)

\* lines 174-243
TryBlock(cv, req, script, outcome) ==
  IF ~req.parse_complete
  THEN TryResult(cv, "null", "null", HttpException(BAD_REQUEST),
                 0, 0, "none")
  ELSE IF ifind_first(req.Upgrade, websocket)
  THEN WebSocketPath(cv, req, script, outcome)
  ELSE HttpPath(cv, req, script, outcome)

\* lines 244-252: the catch clauses; an exception that is neither an
\* http::exception nor a uri_exception is not caught here
Catch(response, exc) ==
  CASE exc.kind = "http" -> response_set_body(set_status(response, exc.code), "")
    [] exc.kind = "uri" -> set_status(response, BAD_REQUEST)
    [] OTHER -> response

\* processor::hybi::handshake_response: the accept key
handshake_response(response) ==
  replace_header(response, "Sec-WebSocket-Accept", "accept-key")

\* lines 257-275: the response as write_response serializes it.  Where
\* m_processor is null and line 262 nevertheless returns, the processor has
\* written nothing.
write_response(response, subprotocol, processor) ==
  LET r1 == IF response.status = SWITCHING_PROTOCOLS
            THEN LET r0 == IF processor = "null" THEN response
                           ELSE handshake_response(response)
                 IN IF subprotocol # ""
                    THEN replace_header(r0, "Sec-WebSocket-Protocol", subprotocol)
                    ELSE r0
            ELSE response
  IN replace_header(r1, "Server", SERVER_ID)

----------------------------------------------------------------------------
(* State *)

VARIABLES
  io_service,                \* "running", "stopped" (an exception left run()),
                             \* "crashed" (undefined behaviour took the process)
  accept_errors,             \* accepts that completed with an error
  pc,                        \* where each connection is
  m_state,                   \* session::state of the connection
  m_version,
  m_uri,                     \* "null" or "set"
  m_processor,               \* "null" or "hybi"
  m_request,
  m_response,
  m_subprotocol,
  m_extensions,
  m_requested_subprotocols,
  m_requested_extensions,
  raw,                       \* the local string write_response serializes into
  terminated,                \* "no", "graceful" (terminate(true)), "abort"
  hist,                      \* what has been invoked for the connection
  api_result                 \* the last direct call of the connection API

vars ==
  <<io_service, accept_errors, pc, m_state, m_version, m_uri, m_processor, m_request,
    m_response, m_subprotocol, m_extensions, m_requested_subprotocols,
    m_requested_extensions, raw, terminated, hist, api_result>>

negotiation == <<m_subprotocol, m_extensions>>
offer == <<m_requested_subprotocols, m_requested_extensions>>

NoHistory ==
  [parsed |-> 0, validate |-> 0, http |-> 0, on_open |-> 0, writes |-> 0,
   validate_outcome |-> "none", http_outcome |-> "none",
   on_open_outcome |-> "none",
   read_error |-> FALSE, write_error |-> FALSE, write_handled |-> FALSE]

\* before: the negotiation state and the body the call found
NoApiResult ==
  [op |-> "none", value |-> "", threw |-> FALSE,
   before |-> [subprotocol |-> "", extensions |-> <<>>, body |-> ""]]

\* create_connection / the connection constructor (lines 143-147)
NewConnections ==
  /\ m_state = [c \in ConIds |-> "CONNECTING"]
  /\ m_uri = [c \in ConIds |-> "null"]
  /\ m_processor = [c \in ConIds |-> "null"]
  /\ m_request = [c \in ConIds |-> NoRequest]
  /\ m_response = [c \in ConIds |-> NewResponse]
  /\ m_subprotocol = [c \in ConIds |-> ""]
  /\ m_extensions = [c \in ConIds |-> <<>>]
  /\ raw = [c \in ConIds |-> "none"]
  /\ terminated = [c \in ConIds |-> "no"]
  /\ hist = [c \in ConIds |-> NoHistory]
  /\ api_result = NoApiResult

\* the server after its constructor (lines 383-389); nothing in the file
\* ever stores into m_requested_subprotocols or m_requested_extensions
Init ==
  /\ io_service = "running"
  /\ accept_errors = 0
  /\ pc = [c \in ConIds |-> "unborn"]
  /\ m_version = [c \in ConIds |-> HTTP_VERSION_SENTINEL]
  /\ NewConnections
  /\ m_requested_subprotocols = [c \in ConIds |-> <<>>]
  /\ m_requested_extensions = [c \in ConIds |-> <<>>]

View(c) ==
  ConView(m_version[c], m_response[c], m_subprotocol[c], m_extensions[c],
          m_requested_subprotocols[c], m_requested_extensions[c])

----------------------------------------------------------------------------
(* The Listener *)

\* connections whose accept completed without error
Accepted == Cardinality({c \in ConIds : pc[c] \notin {"unborn", "accepting"}})

\* lines 414-426: a new connection, and an async_accept pending on it
start_accept(p) ==
  LET con == CHOOSE c \in ConIds :
               p[c] = "unborn" /\ \A d \in ConIds : p[d] = "unborn" => c <= d
  IN [p EXCEPT ![con] = "accepting"]

\* lines 391-403
listen ==
  /\ io_service = "running"
  /\ \A c \in ConIds : pc[c] = "unborn"
  /\ pc' = start_accept(pc)
  /\ UNCHANGED <<io_service, accept_errors, m_state, m_version, m_uri,
                 m_processor, m_request, m_response, negotiation, offer, raw,
                 terminated, hist, api_result>>

\* variant: the next accept is started only after a successful one
handle_accept_no_rearm(con, error) ==
  IF error
  THEN /\ accept_errors' = accept_errors + 1
       /\ pc' = [pc EXCEPT ![con] = "unborn"]
  ELSE /\ accept_errors' = accept_errors
       /\ pc' = start_accept([pc EXCEPT ![con] = "reading"])

\* lines 431-439; con->start() begins the handshake with async_init
\* (lines 150-162).  A connection whose accept failed is never started and
\* has no handler pending: nothing can happen to it any more, so it is
\* counted in accept_errors and its record stands for the next connection.
handle_accept(con, error) ==
  IF error
  THEN /\ accept_errors' = accept_errors + 1
       /\ pc' = start_accept([pc EXCEPT ![con] = "unborn"])
  ELSE /\ accept_errors' = accept_errors
       /\ pc' = start_accept([pc EXCEPT ![con] = "reading"])

HandleAccept(con) ==
  /\ io_service = "running"
  /\ pc[con] = "accepting"
  /\ \E error \in BOOLEAN :
       /\ IF error THEN accept_errors < MaxAcceptErrors ELSE Accepted < MaxClients
       /\ handle_accept(con, error)
  /\ UNCHANGED <<io_service, m_state, m_version, m_uri, m_processor, m_request,
                 m_response, negotiation, offer, raw, terminated, hist,
                 api_result>>

----------------------------------------------------------------------------
(* The handshake of one connection *)

\* m_connection.terminate(graceful)
terminate(c, graceful) ==
  /\ terminated' = [terminated EXCEPT ![c] = IF graceful THEN "graceful" ELSE "abort"]
  /\ m_state' = [m_state EXCEPT ![c] = "CLOSED"]

\* lines 167-172: the read failed
ReadFailed(c) ==
  /\ terminate(c, FALSE)
  /\ pc' = [pc EXCEPT ![c] = "done"]
  /\ hist' = [hist EXCEPT ![c].read_error = TRUE]
  /\ UNCHANGED <<io_service, m_version, m_uri, m_processor, m_request,
                 m_response, negotiation, raw>>

\* line 262 calls handshake_response through m_processor.  With the status
\* 101 and m_processor null the behaviour is undefined: the process dies
\* there, or the call happens to return.
ProcessorOutcomes(r) ==
  IF /\ r.exc.kind # "std"
     /\ Catch(r.cv.response, r.exc).status = SWITCHING_PROTOCOLS
     /\ r.processor = "null"
  THEN {"crash", "continue"}
  ELSE {"continue"}

\* lines 174-255: the request is parsed and answered
ReadCompleted(c, req, r) ==
  \E deref \in ProcessorOutcomes(r) :
  LET escaped == r.exc.kind = "std"
      crashed == deref = "crash"
      written == ~escaped /\ ~crashed
      response == IF escaped THEN r.cv.response
                  ELSE IF crashed THEN Catch(r.cv.response, r.exc)
                  ELSE write_response(Catch(r.cv.response, r.exc),
                                      r.cv.subprotocol, r.processor)
  IN /\ m_request' = [m_request EXCEPT ![c] = req]
     /\ m_version' = [m_version EXCEPT ![c] = r.cv.version]
     /\ m_uri' = [m_uri EXCEPT ![c] = r.uri]
     /\ m_processor' = [m_processor EXCEPT ![c] = r.processor]
     /\ m_subprotocol' = [m_subprotocol EXCEPT ![c] = r.cv.subprotocol]
     /\ m_extensions' = [m_extensions EXCEPT ![c] = r.cv.extensions]
     /\ m_response' = [m_response EXCEPT ![c] = response]
     /\ hist' = [hist EXCEPT ![c].parsed = 1,
                             ![c].validate = r.validate,
                             ![c].http = r.http,
                             ![c].validate_outcome =
                                 IF r.validate = 1 THEN r.hook_outcome ELSE "none",
                             ![c].http_outcome =
                                 IF r.http = 1 THEN r.hook_outcome ELSE "none",
                             ![c].writes = IF written THEN 1 ELSE 0]
        \* the exception leaves handle_read_request and io_service::run()
     /\ io_service' = IF escaped THEN "stopped"
                      ELSE IF crashed THEN "crashed" ELSE io_service
     /\ pc' = [pc EXCEPT ![c] = IF escaped THEN "escaped"
                                ELSE IF crashed THEN "crashed" ELSE "writing"]
        \* line 275: raw is a local of write_response; the async_write of
        \* lines 279-287 is pending on its bytes when write_response returns.
        \* (What the peer then receives is not part of the model: m_response
        \* is the response the connection means to send.)
     /\ raw' = [raw EXCEPT ![c] = IF written THEN "destroyed" ELSE "none"]
     /\ UNCHANGED <<m_state, terminated>>

\* the request gets as far as Handler.validate or Handler.http
ReachesHook(req) ==
  LET r == TryBlock(ConView(HTTP_VERSION_SENTINEL, NewResponse, "", <<>>, <<>>, <<>>),
                    req, NoScript, Return)
  IN r.validate + r.http > 0

\* what the try block can come to on req, over all the hook may do
TryResults(c, req) ==
  IF ReachesHook(req)
  THEN { TryBlock(View(c), req, script, outcome) :
           script \in HookScripts, outcome \in HookOutcomes }
  ELSE { TryBlock(View(c), req, NoScript, Return) }

\* lines 164-255
handle_read_request(c) ==
  \/ ReadFailed(c)
  \/ \E req \in Requests : \E r \in TryResults(c, req) : ReadCompleted(c, req, r)

HandleReadRequest(c) ==
  /\ io_service = "running"
  /\ pc[c] = "reading"
  /\ handle_read_request(c)
  /\ UNCHANGED <<accept_errors, offer, api_result>>

\* variant: a failed write is closed like a delivered response
WriteFailed_graceful(c) ==
  /\ terminate(c, TRUE)
  /\ pc' = [pc EXCEPT ![c] = "done"]
  /\ hist' = [hist EXCEPT ![c].write_error = TRUE, ![c].write_handled = TRUE]
  /\ UNCHANGED <<io_service, m_response, negotiation>>

\* lines 293-298: the write failed
WriteFailed(c) ==
  /\ terminate(c, FALSE)
  /\ pc' = [pc EXCEPT ![c] = "done"]
  /\ hist' = [hist EXCEPT ![c].write_error = TRUE, ![c].write_handled = TRUE]
  /\ UNCHANGED <<io_service, m_response, negotiation>>

\* lines 324-334: log_open_result dereferences m_uri.  With m_uri null the
\* behaviour is undefined: the process dies there, or the read of the
\* resource happens to go through.
LogOutcomes(c) == IF m_uri[c] = "null" THEN {"crash", "continue"} ELSE {"continue"}

\* line 300 did not return
LogCrashed(c) ==
  /\ io_service' = "crashed"
  /\ pc' = [pc EXCEPT ![c] = "crashed"]
  /\ hist' = [hist EXCEPT ![c].write_handled = TRUE]
  /\ UNCHANGED <<m_state, m_response, negotiation, terminated>>

\* lines 302-315: the response was not 101
CloseAfterResponse(c) ==
  /\ terminate(c, TRUE)
  /\ pc' = [pc EXCEPT ![c] = "done"]
  /\ hist' = [hist EXCEPT ![c].write_handled = TRUE]
  /\ UNCHANGED <<io_service, m_response, negotiation>>

\* lines 317-321: the session opens; handle_read_frame is the frame loop
Open(c, cv, outcome) ==
  LET returned == outcome.kind = "return"
  IN /\ m_state' = [m_state EXCEPT ![c] = "OPEN"]
     /\ m_response' = [m_response EXCEPT ![c] = cv.response]
     /\ m_subprotocol' = [m_subprotocol EXCEPT ![c] = cv.subprotocol]
     /\ m_extensions' = [m_extensions EXCEPT ![c] = cv.extensions]
     /\ hist' = [hist EXCEPT ![c].write_handled = TRUE,
                             ![c].on_open = @ + 1,
                             ![c].on_open_outcome = outcome.kind]
        \* an exception of on_open leaves handle_write_response and run()
     /\ io_service' = IF returned THEN io_service ELSE "stopped"
     /\ pc' = [pc EXCEPT ![c] = IF returned THEN "open" ELSE "escaped"]
     /\ UNCHANGED terminated

\* variant: every delivered response closes the connection
WriteCompleted_closes(c, log, cv, outcome) ==
  IF log = "crash" THEN LogCrashed(c) ELSE CloseAfterResponse(c)

\* lines 300-321: the write succeeded
WriteCompleted(c, log, cv, outcome) ==
  IF log = "crash" THEN LogCrashed(c)
  ELSE IF m_response[c].status # SWITCHING_PROTOCOLS
  THEN CloseAfterResponse(c)
  ELSE Open(c, cv, outcome)

\* the connection as the calls of Handler.on_open can leave it
OnOpenResults(c) == { RunHook(View(c), script).cv : script \in HookScripts }

\* lines 290-322
handle_write_response(c) ==
  \/ WriteFailed(c)
  \/ \E log \in LogOutcomes(c) :
       IF log = "continue" /\ m_response[c].status = SWITCHING_PROTOCOLS
       THEN \E cv \in OnOpenResults(c), outcome \in OnOpenOutcomes :
              WriteCompleted(c, log, cv, outcome)
       ELSE WriteCompleted(c, log, View(c), Return)

HandleWriteResponse(c) ==
  /\ io_service = "running"
  /\ pc[c] = "writing"
  /\ handle_write_response(c)
  /\ UNCHANGED <<accept_errors, m_version, m_uri, m_processor, m_request, offer,
                 raw, api_result>>

----------------------------------------------------------------------------
(* The program *)

Next ==
  \/ listen
  \/ \E c \in ConIds : HandleAccept(c)
  \/ \E c \in ConIds : HandleReadRequest(c)
  \/ \E c \in ConIds : HandleWriteResponse(c)

Spec == Init /\ [][Next]_vars

----------------------------------------------------------------------------
(* The negotiation calls on their own: connection 1 is inside a hook, with  *)
(* some offer of the client in requested_subprotocols and                   *)
(* requested_extensions, and the hook calls select_subprotocol,             *)
(* select_extension and set_body in any order.                              *)

Offers(names) == UNION { [1..n -> names \ {""}] : n \in 0..MaxOffer }

InitNegotiation ==
  /\ io_service = "running"
  /\ accept_errors = 0
  /\ pc = [c \in ConIds |-> IF c = 1 THEN "hook" ELSE "unborn"]
  /\ \E v \in {HTTP_VERSION_SENTINEL} \cup SupportedVersions :
       m_version = [c \in ConIds |-> IF c = 1 THEN v ELSE HTTP_VERSION_SENTINEL]
  /\ NewConnections
  /\ \E subs \in Offers(SubprotocolNames) :
       m_requested_subprotocols = [c \in ConIds |-> IF c = 1 THEN subs ELSE <<>>]
  /\ \E exts \in Offers(ExtensionNames) :
       m_requested_extensions = [c \in ConIds |-> IF c = 1 THEN exts ELSE <<>>]

ApiCall(c, call) ==
  /\ pc[c] = "hook"
  /\ \E r \in {ApplyCall(View(c), call)} :
       /\ Len(r.cv.extensions) <= MaxAccepted
       /\ m_response' = [m_response EXCEPT ![c] = r.cv.response]
       /\ m_subprotocol' = [m_subprotocol EXCEPT ![c] = r.cv.subprotocol]
       /\ m_extensions' = [m_extensions EXCEPT ![c] = r.cv.extensions]
       /\ api_result' =
            [op |-> call.op, value |-> call.value, threw |-> r.threw,
             before |-> [subprotocol |-> m_subprotocol[c],
                         extensions |-> m_extensions[c],
                         body |-> m_response[c].body]]
  /\ UNCHANGED <<io_service, accept_errors, pc, m_state, m_version, m_uri,
                 m_processor, m_request, offer, raw, terminated, hist>>

CallSelectSubprotocol(c) ==
  \E v \in SubprotocolNames : ApiCall(c, Call("select_subprotocol", "", v))

CallSelectExtension(c) ==
  \E v \in ExtensionNames : ApiCall(c, Call("select_extension", "", v))

CallSetBody(c) ==
  \E v \in {"", "page"} : ApiCall(c, Call("set_body", "", v))

NextNegotiation ==
  \/ \E c \in ConIds : CallSelectSubprotocol(c)
  \/ \E c \in ConIds : CallSelectExtension(c)
  \/ \E c \in ConIds : CallSetBody(c)

SpecNegotiation == InitNegotiation /\ [][NextNegotiation]_vars

----------------------------------------------------------------------------
(* Properties *)

\* the request was parsed and asks for a WebSocket upgrade
Upgrade(req) == req.parse_complete /\ ifind_first(req.Upgrade, websocket)

\* handle_read_request ran on c without a read error
ReadHandled(c) == hist[c].parsed = 1

\* handle_write_response ran on c without a write error
WriteSucceeded(c) == hist[c].write_handled /\ ~hist[c].write_error

Header(c, key) == m_response[c].headers[key]

Advertised(c) == Header(c, "Sec-WebSocket-Version") = <<ADVERTISED_VERSIONS>>

\* a well-formed upgrade request of version 13 that Handler.validate let pass
AcceptedUpgrade13(c) ==
  /\ ReadHandled(c)
  /\ Upgrade(m_request[c])
  /\ m_request[c].Version = <<"1","3">>
  /\ m_request[c].handshake_valid
  /\ m_request[c].host_valid
  /\ hist[c].validate_outcome = "return"

\* C1: a well-formed version 13 upgrade that the processor and
\* Handler.validate accept gets the response status 101 with the processor's
\* accept header; once the response is written without error the state is
\* OPEN and on_open has been invoked exactly once (and not before).
C1_UpgradeOpens ==
  \A c \in ConIds :
    AcceptedUpgrade13(c) =>
      /\ m_response[c].status = SWITCHING_PROTOCOLS
      /\ hist[c].writes = 1
      /\ pc[c] = "writing" => Header(c, "Sec-WebSocket-Accept") = <<"accept-key">>
      /\ WriteSucceeded(c) => m_state[c] = "OPEN" /\ hist[c].on_open = 1
      /\ ~hist[c].write_handled => m_state[c] = "CONNECTING" /\ hist[c].on_open = 0

C1_Witness ==
  \E c \in ConIds :
    /\ AcceptedUpgrade13(c)
    /\ WriteSucceeded(c)
    /\ m_state[c] = "OPEN"
    /\ hist[c].on_open = 1
    /\ hist[c].on_open_outcome = "return"

\* an upgrade request whose version header is present and names no supported
\* version
UnsupportedVersion(req) ==
  /\ Upgrade(req)
  /\ req.Version # NoHeader
  /\ atoi(req.Version) \notin SupportedVersions

\* C2: an upgrade request with a version header that is not a number or is a
\* number other than 7, 8, 13 is answered with status 400 and the header
\* Sec-WebSocket-Version: 13, 8, 7.
C2_UnsupportedVersionAdvertised ==
  \A c \in ConIds :
    (ReadHandled(c) /\ UnsupportedVersion(m_request[c])) =>
      /\ hist[c].writes = 1
      /\ m_response[c].status = BAD_REQUEST
      /\ Advertised(c)

\* C3: an upgrade request without a version header sets the version to 0,
\* creates no processor, does not invoke Handler.validate, and is answered
\* with status 400 and the advertisement header; the status is never 101 and
\* the state never OPEN.
C3_MissingVersionRejected ==
  \A c \in ConIds :
    (ReadHandled(c) /\ Upgrade(m_request[c]) /\ m_request[c].Version = NoHeader) =>
      /\ m_version[c] = 0
      /\ m_processor[c] = "null"
      /\ hist[c].validate = 0
      /\ hist[c].writes = 1
      /\ m_response[c].status = BAD_REQUEST
      /\ Advertised(c)
      /\ m_state[c] # "OPEN"
      /\ hist[c].on_open = 0

C3_Witness ==
  \E c \in ConIds :
    /\ ReadHandled(c)
    /\ Upgrade(m_request[c])
    /\ m_request[c].Version = NoHeader
    /\ WriteSucceeded(c)
    /\ m_response[c].status = BAD_REQUEST

\* C4: when the parser rejects the request, neither Handler.validate nor
\* Handler.http is invoked, a response with status 400 is written, and once
\* the write has completed without error the connection has been closed
\* gracefully.
C4_GarbageClosedGracefully ==
  \A c \in ConIds :
    (ReadHandled(c) /\ ~m_request[c].parse_complete) =>
      /\ hist[c].validate = 0
      /\ hist[c].http = 0
      /\ hist[c].writes = 1
      /\ m_response[c].status = BAD_REQUEST
      /\ WriteSucceeded(c) => terminated[c] = "graceful"

\* a parsed request that asks for no WebSocket upgrade and has a usable Host
PlainHttp(c) ==
  /\ ReadHandled(c)
  /\ m_request[c].parse_complete
  /\ ~ifind_first(m_request[c].Upgrade, websocket)
  /\ m_request[c].host_valid

HttpServed(c) ==
  /\ hist[c].http = 1
  /\ hist[c].validate = 0
  /\ hist[c].on_open = 0
  /\ hist[c].writes = 1 => m_response[c].status = OK
  /\ m_version[c] = HTTP_VERSION_SENTINEL
  /\ m_state[c] # "OPEN"
  /\ WriteSucceeded(c) => terminated[c] = "graceful"

C6_ValidateRejectionAnswered ==
  \A c \in ConIds :
    (hist[c].validate = 1 /\ hist[c].validate_outcome # "return") =>
      /\ hist[c].writes = 1
      /\ m_response[c].status \in {BAD_REQUEST} \cup HookErrorCodes
      /\ m_response[c].status # SWITCHING_PROTOCOLS
      /\ m_state[c] # "OPEN"
      /\ hist[c].on_open = 0

Elements(v) == { v[i] : i \in 1..Len(v) }

\* C7: select_subprotocol(v) throws exactly when v is non-empty and not
\* offered, and then leaves the selection as it was; otherwise (v empty
\* included) it stores v.  So the selection is always empty or offered.
C7_SelectSubprotocol ==
  \A c \in ConIds :
    /\ m_subprotocol[c] = "" \/ m_subprotocol[c] \in Elements(m_requested_subprotocols[c])
    /\ (pc[c] = "hook" /\ api_result.op = "select_subprotocol") =>
         /\ api_result.threw <=>
              /\ api_result.value # ""
              /\ api_result.value \notin Elements(m_requested_subprotocols[c])
         /\ api_result.threw => m_subprotocol[c] = api_result.before.subprotocol
         /\ ~api_result.threw => m_subprotocol[c] = api_result.value

\* a refused selection after one that was made
C7_Witness ==
  \E c \in ConIds :
    /\ pc[c] = "hook"
    /\ api_result.op = "select_subprotocol"
    /\ api_result.threw
    /\ api_result.before.subprotocol # ""
    /\ m_subprotocol[c] = api_result.before.subprotocol

\* C8: select_extension("") changes nothing and does not throw;
\* select_extension(v) of a v not offered throws and changes nothing;
\* otherwise v is appended, again if it is there already.  So every accepted
\* extension is an offered one.
C8_SelectExtension ==
  \A c \in ConIds :
    /\ Elements(m_extensions[c]) \subseteq Elements(m_requested_extensions[c])
    /\ (pc[c] = "hook" /\ api_result.op = "select_extension") =>
         LET v == api_result.value
             offered == v \in Elements(m_requested_extensions[c])
         IN /\ v = "" => ~api_result.threw /\ m_extensions[c] = api_result.before.extensions
            /\ (v # "" /\ ~offered) =>
                 api_result.threw /\ m_extensions[c] = api_result.before.extensions
            /\ (v # "" /\ offered) =>
                 /\ ~api_result.threw
                 /\ m_extensions[c] = Append(api_result.before.extensions, v)

\* the same extension accepted twice
C8_Witness ==
  \E c \in ConIds :
    /\ pc[c] = "hook"
    /\ api_result.op = "select_extension"
    /\ ~api_result.threw
    /\ Len(m_extensions[c]) = 2
    /\ m_extensions[c][1] = m_extensions[c][2]

Listening == \E c \in ConIds : pc[c] # "unborn"
AcceptPending == \E c \in ConIds : pc[c] = "accepting"

\* C9: once the server listens an accept is always pending: handle_accept
\* starts the next one whether the accept failed or not.  A failed accept
\* starts no handshake and leaves the loop running; a successful one starts
\* the accepted connection.
C9_ListenerRearms ==
  /\ [](Listening => AcceptPending)
  /\ [][ /\ accept_errors' # accept_errors =>
              /\ AcceptPending'
              /\ \A c \in ConIds : pc'[c] = "reading" => pc[c] = "reading"
              /\ hist' = hist
              /\ io_service' = "running"
         /\ (\E c \in ConIds : pc[c] = "accepting" /\ pc'[c] = "reading") =>
              AcceptPending'
       ]_vars

\* a connection accepted and started, with a failed accept on record and the
\* next accept pending
C9_Witness ==
  /\ accept_errors = MaxAcceptErrors
  /\ accept_errors > 0
  /\ \E c \in ConIds : pc[c] = "reading"
  /\ AcceptPending

\* C10: after a failed read the connection is aborted, and nothing was
\* parsed, no hook invoked and no response written for it; after a failed
\* write the connection is aborted, never OPEN, on_open not invoked, and the
\* one write stays the only one.
C10_TransportErrorsAbort ==
  \A c \in ConIds :
    /\ hist[c].read_error =>
         /\ terminated[c] = "abort"
         /\ hist[c].parsed = 0
         /\ hist[c].validate = 0 /\ hist[c].http = 0 /\ hist[c].on_open = 0
         /\ hist[c].writes = 0
    /\ hist[c].write_error =>
         /\ terminated[c] = "abort"
         /\ m_state[c] # "OPEN"
         /\ hist[c].on_open = 0
         /\ hist[c].writes = 1

C10_Witness ==
  \E c \in ConIds :
    /\ hist[c].write_error
    /\ terminated[c] = "abort"
    /\ m_state[c] = "CLOSED"

\* the I/O of the handshake of c has completed: its read failed, or the
\* handler of its response write was entered
IoCompleted(c) == hist[c].read_error \/ hist[c].write_handled

Resolved(c) == m_state[c] = "OPEN" \/ terminated[c] # "no"

\* C11: the handshake of a connection resolves exactly once: it sets the
\* state to OPEN and invokes on_open, or it terminates the connection, never
\* both; once its I/O has completed it has done one of the two; and no step
\* takes a connection back to CONNECTING.
C11_ResolvesExactlyOnce ==
  /\ [](\A c \in ConIds :
          /\ ~(m_state[c] = "OPEN" /\ terminated[c] # "no")
          /\ m_state[c] = "OPEN" => hist[c].on_open = 1
          /\ terminated[c] # "no" => m_state[c] = "CLOSED" /\ hist[c].on_open = 0
          /\ IoCompleted(c) => Resolved(c))
  /\ [][\A c \in ConIds :
          m_state[c] # "CONNECTING" => m_state'[c] = m_state[c]]_vars

\* C12: set_body(value) throws exactly when the version is not the sentinel
\* -1, and then leaves the body as it was; with version -1 it stores value.
\* So a connection whose version is not -1 never has a body set.
C12_SetBody ==
  \A c \in ConIds :
    /\ m_version[c] # HTTP_VERSION_SENTINEL => m_response[c].body = ""
    /\ (pc[c] = "hook" /\ api_result.op = "set_body") =>
         /\ api_result.threw <=> m_version[c] # HTTP_VERSION_SENTINEL
         /\ api_result.threw => m_response[c].body = api_result.before.body
         /\ ~api_result.threw => m_response[c].body = api_result.value

\* a refused set_body on a version 13 connection
C12_Witness ==
  \E c \in ConIds :
    /\ pc[c] = "hook"
    /\ api_result.op = "set_body"
    /\ api_result.value = "page"
    /\ api_result.threw
    /\ m_version[c] = 13
    /\ m_response[c].body = ""

\* C13: the selected subprotocol, the accepted extensions and the response
\* headers change only while the state is CONNECTING: a step of a connection
\* that is OPEN or CLOSED leaves them alone, and so does the step in which
\* Handler.on_open runs (line 319, after the state was set to OPEN at line
\* 317), whatever on_open calls.
C13_MutationOnlyWhileConnecting ==
  [][\A c \in ConIds :
       (m_state[c] # "CONNECTING" \/ hist'[c].on_open # hist[c].on_open) =>
         /\ m_subprotocol'[c] = m_subprotocol[c]
         /\ m_extensions'[c] = m_extensions[c]
         /\ m_response'[c].headers = m_response[c].headers]_vars

\* an upgrade attempt that failed with a protocol error: the version is
\* missing or unsupported, the processor refused the handshake, or
\* Handler.validate rejected it
ProtocolError(c) ==
  /\ ReadHandled(c)
  /\ Upgrade(m_request[c])
  /\ \/ m_request[c].Version = NoHeader
     \/ atoi(m_request[c].Version) \notin SupportedVersions
     \/ ~m_request[c].handshake_valid
     \/ hist[c].validate_outcome \notin {"none", "return"}

\* C14: an upgrade attempt that fails with a protocol error is sent a
\* response whose status is not 101; once that write has completed without
\* error the connection has been closed gracefully; its state is never OPEN;
\* and handling it never takes the event loop, and with it the Listener,
\* down.
C14_ProtocolErrorClosesGracefully ==
  \A c \in ConIds :
    ProtocolError(c) =>
      /\ hist[c].writes = 1
      /\ m_response[c].status # SWITCHING_PROTOCOLS
      /\ WriteSucceeded(c) => terminated[c] = "graceful"
      /\ m_state[c] # "OPEN"
      /\ pc[c] \notin {"escaped", "crashed"}

\* the header h begins with the decimal numeral of v, and no digit follows it
HasIntegerPrefix(h, v) ==
  LET numeral == IF v < 10 THEN <<v>> ELSE <<v \div 10, v % 10>>
      n == Len(numeral)
  IN /\ Len(h) >= n
     /\ \A i \in 1..n : h[i] \in Digits /\ DigitValue(h[i]) = numeral[i]
     /\ Len(h) > n => h[n + 1] \notin Digits

\* C15: an upgrade request whose version header begins with 7, 8 or 13
\* ("13abc" included) gets that version and a processor, and no
\* advertisement header; it is not rejected before the processor's
\* validate_handshake: if the processor accepts the headers and the uri can
\* be built, Handler.validate is invoked.
C15_SupportedVersionProceeds ==
  \A c \in ConIds : \A v \in SupportedVersions :
    (ReadHandled(c) /\ Upgrade(m_request[c])
       /\ HasIntegerPrefix(m_request[c].Version, v)) =>
      /\ m_version[c] = v
      /\ m_processor[c] = "hybi"
      /\ Header(c, "Sec-WebSocket-Version") = <<>>
      /\ (m_request[c].handshake_valid /\ m_request[c].host_valid) =>
           hist[c].validate = 1
      /\ hist[c].validate = 0 =>
           /\ ~(m_request[c].handshake_valid /\ m_request[c].host_valid)
           /\ m_response[c].status = BAD_REQUEST

C15_Witness ==
  \E c \in ConIds :
    /\ ReadHandled(c)
    /\ Upgrade(m_request[c])
    /\ m_request[c].Version = <<"1","3","a","b","c">>
    /\ m_version[c] = 13
    /\ m_processor[c] = "hybi"
    /\ hist[c].validate = 1
    /\ m_response[c].status = SWITCHING_PROTOCOLS

\* C16: within one connection Handler.validate or Handler.http is invoked
\* before the response write is started, never both and each at most once;
\* Handler.on_open is invoked at most once, in the handler of a 101 response
\* write that completed without error, with the state set to OPEN.
C16_HookOrdering ==
  /\ [](\A c \in ConIds :
          /\ hist[c].validate + hist[c].http <= 1
          /\ hist[c].on_open <= 1
          /\ pc[c] \in {"unborn", "accepting", "reading"} =>
               hist[c].validate + hist[c].http + hist[c].writes + hist[c].on_open = 0
          /\ hist[c].on_open = 1 =>
               /\ hist[c].writes = 1
               /\ WriteSucceeded(c)
               /\ m_response[c].status = SWITCHING_PROTOCOLS
               /\ m_state[c] = "OPEN")
  /\ [][\A c \in ConIds :
          /\ (hist'[c].validate # hist[c].validate \/ hist'[c].http # hist[c].http) =>
               /\ pc[c] = "reading"
               /\ hist[c].writes = 0
          /\ hist'[c].on_open # hist[c].on_open =>
               /\ pc[c] = "writing"
               /\ hist[c].writes = 1
               /\ m_response[c].status = SWITCHING_PROTOCOLS
               /\ ~hist'[c].write_error
               /\ m_state'[c] = "OPEN"]_vars

\* validate ran, the 101 was written, and on_open ran on the OPEN connection
C16_Witness ==
  \E c \in ConIds :
    /\ hist[c].validate = 1
    /\ hist[c].http = 0
    /\ hist[c].writes = 1
    /\ hist[c].on_open = 1
    /\ m_state[c] = "OPEN"

\* C17: when Handler.validate is invoked, requested_subprotocols and
\* requested_extensions hold what the client offered in
\* Sec-WebSocket-Protocol and Sec-WebSocket-Extensions, in the order of the
\* offer.
C17_RequestedHoldsOffer ==
  \A c \in ConIds :
    hist[c].validate = 1 =>
      /\ m_requested_subprotocols[c] = m_request[c].Protocol
      /\ m_requested_extensions[c] = m_request[c].Extensions

\* C18: wherever log_open_result is reached, that is in every handler of a
\* response write that completed without error, m_uri is non-null.
C18_UriSetAtLogOpenResult ==
  \A c \in ConIds : WriteSucceeded(c) => m_uri[c] = "set"

\* C19: the bytes handed to async_write stay alive until the handler of the
\* write runs: no write is pending on a buffer whose owner, the local string
\* of write_response, is already destroyed.
C19_PendingWriteBufferAlive ==
  \A c \in ConIds : pc[c] = "writing" => raw[c] # "destroyed"

\* C20: the response status is 101, or the state OPEN, only on a connection
\* whose version is 7, 8 or 13, that has a processor, whose handshake the
\* processor accepted and whose Handler.validate returned without raising;
\* so the processor is non-null where write_response calls
\* handshake_response, and a connection of version -1 or 0 is never OPEN.
C20_SwitchingOnlyAfterValidation ==
  \A c \in ConIds :
    (m_response[c].status = SWITCHING_PROTOCOLS \/ m_state[c] = "OPEN") =>
      /\ m_version[c] \in SupportedVersions
      /\ m_processor[c] = "hybi"
      /\ m_request[c].handshake_valid
      /\ hist[c].validate_outcome = "return"

====
